---- MODULE Spec2Model ----
(***************************************************************************)
(* Hybrid product-recommendation search engine (modules/search) and the    *)
(* category store it reads (modules/categories).                           *)
(*                                                                         *)
(* Strings of the source that are not ASCII are written romanised:         *)
(*   "notebook" (noteubuk), "graphics_card" (geuraepik-kadeu),             *)
(*   "monitor" (moniteo), "processor" (peuroseseo), "etc" (gita).          *)
(* Product states are written "discontinued" (danjong), "sale_stopped"     *)
(* (panmae-jungji), "sold_out" (pumjeol); any other state is "on_sale".    *)
(* Scores are fixed-point integers: 1000 stands for 1.0.                   *)
(***************************************************************************)
EXTENDS Integers, Sequences, FiniteSets, TLC

VARIABLES
    cats,       \* category table: id -> [name, parent, level, deleted]; parent 0 is NULL
    reply,      \* what the last category-store call returned or raised
    catOps,     \* number of committed writes to the category table
    fvec,       \* the caller's vector-path list (its dicts are shared with the fuser)
    fkey,       \* the caller's keyword-path list
    fruns,      \* the calls of the weighted-sum fuser so far: arguments and result
    flow,       \* which service handles the request: "single" or "two"
    prods,      \* product table: id -> [code, numeric, cat, price, deleted, has_vector, status, brand]
    user_query, \* the request's query, as its set of words
    pc,         \* position of get_recommendations
    intent,     \* the extracted intent
    category_id,        \* resolved category, 0 for None
    target_category_ids,\* the category filter handed to retrieval
    price_args,         \* [min, max] handed to retrieval
    tasks,              \* the two retrieval tasks of the thread pool
    vector_results,
    keyword_results,
    fused_results,
    llm,        \* outcome of the explanation LLM call(s) of this request
    warnings,   \* warnings logged by the request
    intent_llm, \* how the intent-extraction LLM call of the request ended
    llm_calls,  \* LLM calls issued by the explanation stage of the request
    response,   \* what get_recommendations returned or raised
    cache,      \* the session cache: search_id -> [value, expires]
    clock,      \* the time, in seconds
    sessions,   \* what the calls of generate_questions returned, in order
    served,     \* the session stage of the last get_recommendations call
    perf_in,    \* arguments of a call of _calculate_performance_score
    perf_out    \* its result

catVars == <<cats, reply, catOps>>

fuseVars == <<fvec, fkey, fruns>>

reqVars == <<flow, prods, user_query, pc, intent, category_id, target_category_ids,
             price_args, tasks, vector_results, keyword_results, fused_results,
             llm, warnings, intent_llm, llm_calls, response>>

sessVars == <<cache, clock, sessions, served>>

perfVars == <<perf_in, perf_out>>

vars == <<cats, reply, catOps, fvec, fkey, fruns, flow, prods, user_query, pc, intent,
          category_id, target_category_ids, price_args, tasks, vector_results,
          keyword_results, fused_results, llm, warnings, intent_llm, llm_calls, response,
          cache, clock, sessions, served, perf_in, perf_out>>

(***************************************************************************)
(* Bounds of the model.                                                    *)
(***************************************************************************)
MaxCats == 3

MaxCatOps == 5

\* longest candidate list handed to the fuser
MaxList == 2

\* calls of the fuser on one pair of lists
MaxRuns == 2

\* product codes (danawa_product_id) of the fuser's candidates
FusePids == {1, 2, 3}

\* similarity scores, 1000 for 1.0: max(0, 1 - d/2) on the vector path,
\* sim > 0.05 on the keyword path
VecScores == {0, 500, 1000}

KeyScores == {500, 1000}

CatNames == {"CPU", "cpu"}

\* parent_id 0 (and a NULL parent column): no parent
NoParent == 0

\* an argument left at its default None
NoArg == -1

NoName == "None"

(***************************************************************************)
(* modules/categories                                                      *)
(***************************************************************************)
CatIds == DOMAIN cats

\* name__iexact compares case-insensitively
Lower(s) ==
    CASE s = "CPU" -> "cpu"
      [] s = "AMD" -> "amd"
      [] OTHER -> s

\* Meta.ordering = ['name']: rank of a name in the table's collation
NameRank(s) ==
    CASE s = "AMD" -> 1
      [] s = "amd" -> 2
      [] s = "CPU" -> 3
      [] s = "cpu" -> 4
      [] OTHER -> 5

\* CategoryService.get_category_by_id: the id if the row exists and is not
\* soft-deleted, else 0 (None)
get_category_by_id(store, id) ==
    IF id \in DOMAIN store /\ ~store[id].deleted THEN id ELSE 0

\* CategoryModel._calculate_level on the rows as stored: the number of parent
\* links from p up to a root; -1 when the walk never ends (a cycle above p)
RECURSIVE LevelWalk(_, _, _)
LevelWalk(store, p, n) ==
    IF p = NoParent THEN n
    ELSE IF n > Cardinality(DOMAIN store) THEN -1
    ELSE LevelWalk(store, store[p].parent, n + 1)

calculate_level(store, parent) == LevelWalk(store, parent, 0)

\* the children query with its soft-delete filter left out
ChildrenSetUnfiltered(store, id) ==
    {c \in DOMAIN store : store[c].parent = id}

\* the children query of _get_descendant_category_ids, in Meta.ordering
\* (name, then id): filter(parent_id=category_id, deleted_at__isnull=True)
ChildrenSet(store, id) ==
    {c \in DOMAIN store : store[c].parent = id /\ ~store[c].deleted}

RECURSIVE OrderedChildren(_, _)
OrderedChildren(store, S) ==
    IF S = {} THEN <<>>
    ELSE LET first == CHOOSE c \in S : \A d \in S :
                          \/ NameRank(store[c].name) < NameRank(store[d].name)
                          \/ /\ NameRank(store[c].name) = NameRank(store[d].name)
                             /\ c <= d
         IN  <<first>> \o OrderedChildren(store, S \ {first})

\* _get_descendant_category_ids, cut off at recursion depth `fuel`
RECURSIVE DescWalk(_, _, _)
RECURSIVE DescEach(_, _, _)
DescWalk(store, id, fuel) ==
    IF fuel = 0 THEN <<>>
    ELSE <<id>> \o DescEach(store, OrderedChildren(store, ChildrenSet(store, id)), fuel - 1)

DescEach(store, kids, fuel) ==
    IF kids = <<>> THEN <<>>
    ELSE DescWalk(store, Head(kids), fuel) \o DescEach(store, Tail(kids), fuel)

\* the recursion never bottoms out: an all-active cycle lies below id
DescDiverges(store, id) ==
    LET n == Cardinality(DOMAIN store) + 1
    IN  DescWalk(store, id, n + 1) # DescWalk(store, id, n)

\* LLMRecommendationService._get_descendant_category_ids and
\* ShoppingResearchService._get_descendant_category_ids (same body)
get_descendant_category_ids(store, id) ==
    DescWalk(store, id, Cardinality(DOMAIN store) + 1)

\* every reply of the category store has this shape
Reply(kind, of, ids) == [kind |-> kind, of |-> of, ids |-> ids]

\* CategoryService.create_category(name, parent_id)
create_category(name, parent_id) ==
    LET parent == IF parent_id # 0 THEN get_category_by_id(cats, parent_id) ELSE NoParent
        existing == \E c \in CatIds :
                        /\ Lower(cats[c].name) = Lower(name)
                        /\ cats[c].parent = parent
                        /\ ~cats[c].deleted
        newId == Cardinality(CatIds) + 1
        lvl == calculate_level(cats, parent)
    IN  IF parent_id # 0 /\ parent = 0
        THEN /\ reply' = Reply("CategoryNotFoundError", parent_id, <<>>)
             /\ UNCHANGED <<cats, catOps>>
        ELSE IF existing
        THEN /\ reply' = Reply("CategoryAlreadyExistsError", 0, <<>>)
             /\ UNCHANGED <<cats, catOps>>
        ELSE /\ Cardinality(CatIds) < MaxCats
             /\ catOps < MaxCatOps
             /\ catOps' = catOps + 1
             /\ lvl # -1
             /\ cats' = cats @@ (newId :> [name |-> name, parent |-> parent,
                                           level |-> lvl, deleted |-> FALSE])
             /\ reply' = Reply("created", newId, <<>>)

\* CategoryService.update_category(category_id, name, parent_id)
update_category(cid, name, parent_id) ==
    LET category == get_category_by_id(cats, cid)
        newName == IF name # NoName THEN name ELSE cats[category].name
        newParent == IF parent_id = NoArg THEN cats[category].parent
                     ELSE IF parent_id = 0 THEN NoParent
                     ELSE get_category_by_id(cats, parent_id)
        lvl == calculate_level(cats, newParent)
    IN  IF category = 0
        THEN /\ reply' = Reply("CategoryNotFoundError", cid, <<>>)
             /\ UNCHANGED <<cats, catOps>>
        ELSE IF parent_id # NoArg /\ parent_id = cid
        THEN /\ reply' = Reply("InvalidCategoryHierarchyError", cid, <<>>)
             /\ UNCHANGED <<cats, catOps>>
        ELSE IF parent_id # NoArg /\ parent_id # 0 /\ newParent = 0
        THEN /\ reply' = Reply("CategoryNotFoundError", parent_id, <<>>)
             /\ UNCHANGED <<cats, catOps>>
        ELSE /\ catOps < MaxCatOps
             /\ catOps' = catOps + 1
             /\ lvl # -1
             /\ cats' = [cats EXCEPT ![category] =
                            [@ EXCEPT !.name = newName, !.parent = newParent, !.level = lvl]]
             /\ reply' = Reply("updated", category, <<>>)

\* CategoryService.delete_category(category_id): a soft delete
delete_category(cid) ==
    LET category == get_category_by_id(cats, cid)
        lvl == calculate_level(cats, cats[category].parent)
    IN  IF category = 0
        THEN /\ reply' = Reply("CategoryNotFoundError", cid, <<>>)
             /\ UNCHANGED <<cats, catOps>>
        ELSE /\ catOps < MaxCatOps
             /\ catOps' = catOps + 1
             /\ lvl # -1
             /\ cats' = [cats EXCEPT ![category] = [@ EXCEPT !.deleted = TRUE, !.level = lvl]]
             /\ reply' = Reply("deleted", category, <<>>)

\* a call of _get_descendant_category_ids(category_id) on the table as it is
descendant_query(cid) ==
    /\ reply' = IF DescDiverges(cats, cid)
                THEN Reply("RecursionError", cid, <<>>)
                ELSE Reply("descendants", cid, get_descendant_category_ids(cats, cid))
    /\ UNCHANGED <<cats, catOps>>

CatInit ==
    /\ cats = <<>>
    /\ reply = Reply("none", 0, <<>>)
    /\ catOps = 0

CatIdle == UNCHANGED catVars

(***************************************************************************)
(* LLMRecommendationService._fuse_results: the weighted-sum fuser          *)
(***************************************************************************)
\* weights of res[pid]['score'] * 0.7 + i['score'] * 0.3, in tenths
VectorWeight == 7

KeywordWeight == 3

\* the two weights exchanged
BlendSwapped(v, k) == (KeywordWeight * v + VectorWeight * k) \div 10

Blend(v, k) == (VectorWeight * v + KeywordWeight * k) \div 10

\* a dict that never finds a product code
PosOfNone(res, pid) == 0

\* position of product code pid in an insertion-ordered dict, 0 if absent
PosOf(res, pid) ==
    IF \E j \in 1..Len(res) : res[j].pid = pid
    THEN CHOOSE j \in 1..Len(res) : res[j].pid = pid
    ELSE 0

\* res = {i['product'].danawa_product_id: i for i in vec}
RECURSIVE DictOf(_, _)
DictOf(res, rest) ==
    IF rest = <<>> THEN res
    ELSE LET i == Head(rest)
             pos == PosOf(res, i.pid)
         IN  DictOf(IF pos # 0 THEN [res EXCEPT ![pos] = i] ELSE Append(res, i), Tail(rest))

\* the loop over key: blend into the stored dict of an entry that is there,
\* else add the entry
RECURSIVE MergeKey(_, _)
MergeKey(res, rest) ==
    IF rest = <<>> THEN res
    ELSE LET i == Head(rest)
             pos == PosOf(res, i.pid)
         IN  MergeKey(
                 IF pos # 0
                 THEN [res EXCEPT ![pos].score = Blend(@, i.score)]
                 ELSE Append(res, i),
                 Tail(rest))

\* sorted(..., key=score, reverse=True): stable, equal scores keep their order
RECURSIVE InsertDesc(_, _)
InsertDesc(sorted, item) ==
    IF sorted = <<>> THEN <<item>>
    ELSE IF Head(sorted).score >= item.score
         THEN <<Head(sorted)>> \o InsertDesc(Tail(sorted), item)
         ELSE <<item>> \o sorted

RECURSIVE SortDesc(_, _)
SortDesc(sorted, rest) ==
    IF rest = <<>> THEN sorted
    ELSE SortDesc(InsertDesc(sorted, Head(rest)), Tail(rest))

\* the list _fuse_results(vec, key) returns
fuse_results(vec, key) == SortDesc(<<>>, MergeKey(DictOf(<<>>, vec), key))

\* the caller's vec after the call: its dicts are the ones the fuser wrote to
VecAfterFuse(vec, key) ==
    LET res == MergeKey(DictOf(<<>>, vec), key)
    IN  [j \in 1..Len(vec) |-> [vec[j] EXCEPT !.score = res[PosOf(res, vec[j].pid)].score]]

\* one call _fuse_results(fvec, fkey) on the lists the caller holds
FuseCall ==
    /\ Len(fruns) < MaxRuns
    /\ fruns' = Append(fruns, [vec |-> fvec, key |-> fkey, out |-> fuse_results(fvec, fkey)])
    /\ fvec' = VecAfterFuse(fvec, fkey)
    /\ UNCHANGED fkey

\* candidate lists as a query returns them: at most n rows, no product twice
CandidateLists(n, scores) ==
    UNION {{l \in [1..len -> [pid : FusePids, score : scores]] :
               \A a, b \in 1..len : a # b => l[a].pid # l[b].pid} : len \in 0..n}

FuseIdle ==
    /\ fvec = <<>>
    /\ fkey = <<>>
    /\ fruns = <<>>

FuseInit ==
    /\ fvec \in CandidateLists(MaxList, VecScores)
    /\ fkey \in CandidateLists(MaxList, KeyScores)
    /\ fruns = <<>>

(***************************************************************************)
(* A recommendation request: what both services share                      *)
(***************************************************************************)
NoPrice == -1

NoResponse == [status |-> "pending", error |-> "", products |-> <<>>, message |-> "absent"]

NoIntent == [category |-> "ABSENT", sq_tag |-> "absent", sq |-> {}, kw_tag |-> "absent",
             min_price |-> NoPrice, max_price |-> NoPrice]

ReqIdle ==
    /\ flow = "none"
    /\ prods = <<>>
    /\ user_query = {}
    /\ pc = "idle"
    /\ intent = NoIntent
    /\ category_id = 0
    /\ target_category_ids = <<>>
    /\ price_args = [min |-> NoPrice, max |-> NoPrice]
    /\ tasks = [vec |-> "idle", key |-> "idle", emb |-> "none"]
    /\ vector_results = <<>>
    /\ keyword_results = <<>>
    /\ fused_results = <<>>
    /\ llm = "none"
    /\ warnings = {}
    /\ intent_llm = "none"
    /\ llm_calls = 0
    /\ response = NoResponse

\* OpenAIClient.create_embedding: the vector, or ValueError raised for a
\* missing key, or ValueError wrapping any error of the provider call
EmbeddingOutcomes == {"ok", "provider_error", "missing_key"}

Raised(err) == [status |-> "raised", error |-> err, products |-> <<>>, message |-> "absent"]

\* the dictionary a flow returns: its product list and its analysis_message
\* ("absent" when the dictionary has no such key)
Returned(products, message) ==
    [status |-> "ok", error |-> "", products |-> products, message |-> message]

SeqSet(seq) == {seq[j] : j \in 1..Len(seq)}

\* a query without its slice
TakeAll(seq, n) == seq

\* a query's [:n] slice
Take(seq, n) == IF Len(seq) <= n THEN seq ELSE SubSeq(seq, 1, n)

\* rows S of a query in ORDER BY score descending (ascending distance); rows
\* of equal score come in key order
RECURSIVE Ranked(_, _)
Ranked(S, score) ==
    IF S = {} THEN <<>>
    ELSE LET first == CHOOSE p \in S : \A q \in S :
                          score[p] > score[q] \/ (score[p] = score[q] /\ p <= q)
         IN  <<[pid |-> first, score |-> score[first]]>> \o Ranked(S \ {first}, score)

\* row sets up to this size get every assignment of scores
MaxOracleRows == 6

\* the scores a distance or similarity function can give the rows: every
\* assignment of the levels for a small row set, and for a larger one the
\* assignments that give one level to the odd keys and one to the even keys
ScoreOracles(rows, levels) ==
    IF Cardinality(rows) <= MaxOracleRows
    THEN [rows -> levels]
    ELSE {[p \in rows |-> IF p % 2 = 1 THEN a ELSE b] : a \in levels, b \in levels}

\* a catalogue of n products with more searchable products than a search
\* returns: the first five are deleted, without an embedding, sold out,
\* discontinued and stopped; the sixth is a cheap CPU, the rest are notebooks
LongCatalog(n) ==
    [p \in 1..n |->
        [numeric |-> TRUE, cat |-> IF p = 6 THEN 21 ELSE 2,
         price |-> IF p = 6 THEN 300000 ELSE 1000000,
         deleted |-> p = 1, has_vector |-> p # 2,
         status |-> CASE p = 3 -> "sold_out"
                      [] p = 4 -> "discontinued"
                      [] p = 5 -> "sale_stopped"
                      [] OTHER -> "on_sale",
         review_count |-> 10, review_rating |-> 4]]

\* category tables a request can find: the fixture keys of categories.json,
\* one child soft-deleted; and the same table after update_category(21,
\* parent_id=22) has closed a parent cycle
CatTree ==
    (2 :> [name |-> "notebook", parent |-> 0, level |-> 0, deleted |-> FALSE]) @@
    (21 :> [name |-> "CPU", parent |-> 0, level |-> 0, deleted |-> FALSE]) @@
    (22 :> [name |-> "AMD", parent |-> 21, level |-> 1, deleted |-> FALSE]) @@
    (23 :> [name |-> "Intel", parent |-> 21, level |-> 1, deleted |-> TRUE])

CatCycle == [CatTree EXCEPT ![21] = [@ EXCEPT !.parent = 22, !.level = 2]]

FlowCatTables == {CatTree, CatCycle}

\* similarity values TrigramSimilarity can report for a category name
SimLevels == {200, 300, 900}

UnsellableStatus == {"discontinued", "sale_stopped", "sold_out"}

\* the trigram best match: highest similarity strictly above the floor, over
\* all rows (the query has no deleted_at filter); 0 when there is none.  Rows
\* of equal similarity can come first in either order.
BestMatches(store, sims, floor) ==
    LET C == {c \in DOMAIN store : sims[c] > floor}
    IN  IF C = {} THEN {0} ELSE {c \in C : \A d \in C : sims[c] >= sims[d]}

(***************************************************************************)
(* LLMRecommendationService: the single-step flow                          *)
(***************************************************************************)
TOP_K == 5

\* fused[:8] goes to the re-rank prompt
RerankPool == 8

VectorLimit == 20

KeywordLimit == 20

\* MIN_CAT_SIMILARITY = 0.3
MIN_CAT_SIMILARITY == 300

\* sim__gt=0.05
KeywordSimFloor == 50

CpuCategoryPk == 21

GpuCategoryPk == 24

MonitorCategoryPk == 18

NotebookCategoryPk == 2

\* the queries of the model, each the set of its words
SingleQueries == {{"cpu"}, {"processor"}, {"graphics_card"}, {"GPU", "monitor"},
                  {"monitor", "notebook"}, {"notebook", "CPU"}, {"SSD"}, {"chair"}}

SingleVecScores == {400, 1000}

\* 0: a similarity at or under the floor
SingleKeySims == {0, 800}

SingleCatalog ==
    (1 :> [numeric |-> TRUE, cat |-> 22, price |-> 300000, deleted |-> FALSE,
           has_vector |-> TRUE, status |-> "on_sale", review_count |-> 10, review_rating |-> 4]) @@
    (2 :> [numeric |-> TRUE, cat |-> 2, price |-> 1000000, deleted |-> FALSE,
           has_vector |-> TRUE, status |-> "on_sale", review_count |-> 10, review_rating |-> 4]) @@
    (3 :> [numeric |-> TRUE, cat |-> 23, price |-> 300000, deleted |-> FALSE,
           has_vector |-> TRUE, status |-> "on_sale", review_count |-> 10, review_rating |-> 4]) @@
    (4 :> [numeric |-> TRUE, cat |-> 21, price |-> 300000, deleted |-> FALSE,
           has_vector |-> FALSE, status |-> "on_sale", review_count |-> 0, review_rating |-> 0])

\* a catalogue with more products than a response holds: six notebooks, two
\* of them with an embedding
WideCatalog ==
    [p \in 1..6 |->
        [numeric |-> TRUE, cat |-> 2, price |-> 1000000, deleted |-> FALSE,
         has_vector |-> p <= 2, status |-> "on_sale", review_count |-> 10,
         review_rating |-> 4]]

\* the catalogues and the queries run against them
SingleCases == ({SingleCatalog} \X SingleQueries) \cup {<<WideCatalog, {"chair"}>>}

\* str.upper(), word by word
UpperWord(w) ==
    CASE w = "cpu" -> "CPU"
      [] w = "chair" -> "CHAIR"
      [] OTHER -> w

Upper(q) == {UpperWord(w) : w \in q}

\* str.strip()
Strip(s) ==
    CASE s = " CPU" -> "CPU"
      [] OTHER -> s

\* how an LLM call for an intent can end: the client raises, or answers text
\* without a JSON object, with a malformed one, or with a JSON object
IntentOutcomes == {"throws", "no_json", "bad_json", "parsed"}

\* {"product_category": "etc"}: the intent of every failure of the extraction
DegradedIntent == [NoIntent EXCEPT !.category = "etc"]

\* the JSON objects the intent model can answer with: a category guess with a
\* search string and keywords, and a category guess alone
SingleAnswers ==
    {[NoIntent EXCEPT !.category = "CPU", !.sq_tag = "text", !.sq = {"cpu", "gaming"},
                      !.kw_tag = "list"],
     [NoIntent EXCEPT !.category = "notebook"]}

\* the extractor handing on a parsed object whose product_category is null
extract_intent_pro_null(outcome, answer) ==
    IF outcome = "parsed" THEN [NoIntent EXCEPT !.category = "NULL"] ELSE DegradedIntent

\* _extract_intent_pro.  generate_content returns the response's text, a str;
\* the extractor then reads resp.text of it, which raises AttributeError inside
\* the try, so whether the call throws or answers, the except branch returns
\* the degraded intent.
extract_intent_pro(outcome, answer) ==
    IF outcome = "throws" THEN DegradedIntent
    ELSE \* an answer of any content: resp.text on a str
         DegradedIntent

\* the override matching the query as typed
KeywordOverrideAsTyped(q) ==
    IF "CPU" \in q \/ "processor" \in q THEN CpuCategoryPk
    ELSE IF "graphics_card" \in q \/ "GPU" \in q THEN GpuCategoryPk
    ELSE IF "monitor" \in q THEN MonitorCategoryPk
    ELSE IF "notebook" \in q THEN NotebookCategoryPk
    ELSE 0

\* the keyword override on user_query.upper(): the hard-wired key, 0 for none
KeywordOverride(q) ==
    LET u == Upper(q)
    IN  IF "CPU" \in u \/ "processor" \in u THEN CpuCategoryPk
        ELSE IF "graphics_card" \in u \/ "GPU" \in u THEN GpuCategoryPk
        ELSE IF "monitor" \in u THEN MonitorCategoryPk
        ELSE IF "notebook" \in u THEN NotebookCategoryPk
        ELSE 0

OverrideName(q, name) ==
    LET fixed == KeywordOverride(q)
    IN  CASE fixed = CpuCategoryPk -> "CPU"
          [] fixed = GpuCategoryPk -> "graphics_card"
          [] fixed = MonitorCategoryPk -> "monitor"
          [] fixed = NotebookCategoryPk -> "notebook"
          [] OTHER -> name

\* filter(name=..., deleted_at__isnull=True).first(), 0 for None
ExactMatch(store, name) ==
    LET S == {c \in DOMAIN store : store[c].name = name /\ ~store[c].deleted}
    IN  IF S = {} THEN 0 ELSE CHOOSE c \in S : \A d \in S : c <= d

\* the categories step 2 of get_recommendations can settle on
ResolveSingle(store, q, name, sims) ==
    LET fixed == KeywordOverride(q)
    IN  IF fixed = 0 /\ name # "" /\ name # "etc"
        THEN IF ExactMatch(store, name) # 0 THEN {ExactMatch(store, name)}
             ELSE BestMatches(store, sims, MIN_CAT_SIMILARITY)
        ELSE {fixed}

\* get_recommendations up to the submission of the two retrieval tasks
single_resolve_category ==
    /\ flow = "single"
    /\ pc = "start"
    /\ \E outcome \in IntentOutcomes, answer \in SingleAnswers,
          sims \in [DOMAIN cats -> SimLevels] :
         LET got == extract_intent_pro(outcome, answer)
             name == OverrideName(user_query,
                         Strip(IF got.category = "ABSENT" THEN "etc" ELSE got.category))
         IN  /\ intent' = got
             /\ intent_llm' = outcome
             /\ IF got.category = "NULL"
                THEN \* None.strip()
                     /\ response' = Raised("AttributeError")
                     /\ pc' = "done"
                     /\ UNCHANGED <<category_id, target_category_ids, tasks>>
                ELSE \E cid \in ResolveSingle(cats, user_query, name, sims) :
                     IF cid # 0 /\ DescDiverges(cats, cid)
                     THEN /\ response' = Raised("RecursionError")
                          /\ pc' = "done"
                          /\ category_id' = cid
                          /\ UNCHANGED <<target_category_ids, tasks>>
                     ELSE /\ category_id' = cid
                          /\ target_category_ids' =
                                 IF cid # 0 THEN get_descendant_category_ids(cats, cid)
                                 ELSE <<>>
                          /\ tasks' = [vec |-> "pending", key |-> "pending", emb |-> "none"]
                          /\ pc' = "search"
                          /\ UNCHANGED response
    /\ UNCHANGED <<flow, prods, user_query, llm_calls, price_args, vector_results,
                   keyword_results, fused_results, llm, warnings>>

\* the category filter with its hard filter left out
category_filter_off(table, qs, ids) == qs

\* if category_ids: qs = qs.filter(category_id__in=category_ids)
category_filter(table, qs, ids) ==
    IF ids # {} THEN {p \in qs : table[p].cat \in ids} ELSE qs

\* the safety lock of _vector_search: the query string holds one of the three
SafetyLocked(q) == \E k \in {"CPU", "notebook", "graphics_card"} : k \in q

\* the task _vector_search(intent.get('search_query', user_query), ids)
single_vector_search ==
    /\ flow = "single"
    /\ pc = "search"
    /\ tasks.vec = "pending"
    /\ \E embedding \in EmbeddingOutcomes :
         IF embedding # "ok"
         THEN \* create_embedding raises ValueError; nothing here catches it
              /\ tasks' = [tasks EXCEPT !.vec = "raised", !.emb = embedding]
              /\ UNCHANGED vector_results
         ELSE LET query == IF intent.sq_tag = "absent" THEN user_query ELSE intent.sq
                  ids == SeqSet(target_category_ids)
                  base == {p \in DOMAIN prods : ~prods[p].deleted /\ prods[p].has_vector}
                  qs == category_filter(prods, base, ids)
                  rows == {p \in qs : prods[p].status \notin UnsellableStatus}
              IN  /\ tasks' = [tasks EXCEPT !.vec = "done", !.emb = embedding]
                  /\ IF ids = {} /\ SafetyLocked(query)
                     THEN vector_results' = <<>>
                     ELSE \E score \in ScoreOracles(rows, SingleVecScores) :
                            vector_results' = Take(Ranked(rows, score), VectorLimit)
    /\ UNCHANGED <<flow, prods, user_query, intent_llm, llm_calls,
                   pc, intent, category_id, target_category_ids,
                   price_args, keyword_results, fused_results, llm, warnings, response>>

\* the task _keyword_search(intent.get('keywords', [user_query]), ids)
single_keyword_search ==
    /\ flow = "single"
    /\ pc = "search"
    /\ tasks.key = "pending"
    /\ LET ids == SeqSet(target_category_ids)
           base == {p \in DOMAIN prods : ~prods[p].deleted}
           qs == category_filter(prods, base, ids)
       IN  IF intent.kw_tag = "empty"
           THEN keyword_results' = <<>>
           ELSE \E sim \in ScoreOracles(qs, SingleKeySims) :
                  keyword_results' =
                      Take(Ranked({p \in qs : sim[p] > KeywordSimFloor}, sim), KeywordLimit)
    /\ tasks' = [tasks EXCEPT !.key = "done"]
    /\ UNCHANGED <<flow, prods, user_query, intent_llm, llm_calls,
                   pc, intent, category_id, target_category_ids,
                   price_args, vector_results, fused_results, llm, warnings, response>>

\* a join that waits for the first future only
FirstCompleted == tasks.vec # "pending"

\* f_vec.result(), f_key.result(): both futures have ended
BothCompleted == tasks.vec # "pending" /\ tasks.key # "pending"

\* f_vec.result(), f_key.result(), then _fuse_results(...)[:8]
single_fuse ==
    /\ flow = "single"
    /\ pc = "search"
    /\ BothCompleted
    /\ IF tasks.vec = "raised"
       THEN /\ response' = Raised("ValueError")
            /\ pc' = "done"
            /\ UNCHANGED <<vector_results, fused_results>>
       ELSE LET fused == Take(fuse_results(vector_results, keyword_results), RerankPool)
            IN  /\ fused_results' = fused
                /\ vector_results' = VecAfterFuse(vector_results, keyword_results)
                /\ IF fused = <<>>
                   THEN response' = Returned(<<>>, "no_matching_products") /\ pc' = "done"
                   ELSE pc' = "rerank" /\ UNCHANGED response
    /\ UNCHANGED <<flow, prods, user_query, intent_llm, llm_calls,
                   intent, category_id, target_category_ids,
                   price_args, tasks, keyword_results, llm, warnings>>

\* _generate_fallback_reason: a sentence around the brand, never empty
generate_fallback_reason(p) == "template"

\* what the re-rank answer can hold for a product code: a reason, an empty
\* reason, or no entry
ReasonEntries == {"text", "", "absent"}

\* a product code that no product of the catalogue has
UnknownCode == 999

\* how the answer lists its results: in the order of the prompt with the codes
\* as strings, or the other way round with the codes as numbers and with one
\* more entry for a code that was not in the prompt
RerankStyles == {"as_prompted", "reversed_numbers_extra"}

\* str(r.get('product_code')) and str(p.danawa_product_id): the digits of the
\* code, written as a number or as a string
Str(code) == code.digits

\* the 'results' list of the answer: an entry for every product whose answer is
\* not "absent", each with the reason written for that code
RerankResults(fused, answer, style) ==
    LET listed == SelectSeq(fused, LAMBDA r : answer[r.pid] # "absent")
        form == IF style = "as_prompted" THEN "string" ELSE "number"
        entries == [k \in 1..Len(listed) |->
                       [product_code |-> [form |-> form, digits |-> listed[k].pid],
                        recommendation_reason |->
                            [text |-> answer[listed[k].pid], of |-> listed[k].pid]]]
        extra == [product_code |-> [form |-> form, digits |-> UnknownCode],
                  recommendation_reason |-> [text |-> "text", of |-> UnknownCode]]
    IN  IF style = "as_prompted" THEN entries
        ELSE [k \in 1..Len(entries) |-> entries[Len(entries) + 1 - k]] \o <<extra>>

\* for r in results: reason_map[str(r.get('product_code'))] = r.get('recommendation_reason')
RECURSIVE ReasonMapOf(_, _)
ReasonMapOf(reason_map, results) ==
    IF results = <<>> THEN reason_map
    ELSE LET r == Head(results)
             p_code == Str(r.product_code)
         IN  ReasonMapOf([c \in DOMAIN reason_map \cup {p_code} |->
                             IF c = p_code THEN r.recommendation_reason ELSE reason_map[c]],
                         Tail(results))

NoReason == [text |-> "", of |-> 0]

\* a lookup that takes any entry of the answer
reason_map_get_any(reason_map, p_id) ==
    IF DOMAIN reason_map = {} THEN NoReason
    ELSE reason_map[CHOOSE c \in DOMAIN reason_map : \A d \in DOMAIN reason_map : c >= d]

\* reason_map.get(p_id)
reason_map_get(reason_map, p_id) ==
    IF p_id \in DOMAIN reason_map THEN reason_map[p_id] ELSE NoReason

\* _rerank_with_fallback
single_rerank ==
    /\ flow = "single"
    /\ pc = "rerank"
    /\ \E outcome \in {"throws", "no_json", "parsed"}, style \in RerankStyles :
       \E answer \in [{fused_results[j].pid : j \in 1..Len(fused_results)} -> ReasonEntries] :
         LET results == IF outcome = "parsed"
                        THEN RerankResults(fused_results, answer, style) ELSE <<>>
             reason_map == ReasonMapOf(<<>>, results)
             top == Take(fused_results, TOP_K)
         IN  /\ outcome # "parsed" =>
                    /\ \A p \in DOMAIN answer : answer[p] = "absent"
                    /\ style = "as_prompted"
             /\ llm' = outcome
             /\ llm_calls' = 1
             /\ response' = Returned([j \in 1..Len(top) |->
                    LET p_id == Str([form |-> "string", digits |-> top[j].pid])
                        found == reason_map_get(reason_map, p_id)
                    IN  [pid |-> top[j].pid,
                         reason |-> IF found.text = ""
                                    THEN generate_fallback_reason(top[j].pid)
                                    ELSE found.text,
                         reason_of |-> IF found.text = "" THEN 0 ELSE found.of]],
                    "recommendation_result")
    /\ pc' = "done"
    /\ UNCHANGED <<flow, prods, user_query, intent_llm, intent, category_id, target_category_ids,
                   price_args, tasks, vector_results, keyword_results, fused_results,
                   warnings>>

SingleInit ==
    /\ flow = "single"
    /\ \E case \in SingleCases : prods = case[1] /\ user_query = case[2]
    /\ pc = "start"
    /\ intent = NoIntent
    /\ category_id = 0
    /\ target_category_ids = <<>>
    /\ price_args = [min |-> NoPrice, max |-> NoPrice]
    /\ tasks = [vec |-> "idle", key |-> "idle", emb |-> "none"]
    /\ vector_results = <<>>
    /\ keyword_results = <<>>
    /\ fused_results = <<>>
    /\ llm = "none"
    /\ warnings = {}
    /\ intent_llm = "none"
    /\ llm_calls = 0
    /\ response = NoResponse

(***************************************************************************)
(* ShoppingResearchService: the two-step flow, step 2                      *)
(***************************************************************************)
ResearchTopK == 5

SEARCH_LIMIT == 50

\* MIN_SIMILARITY = 0.60
MIN_SIMILARITY == 600

\* VECTOR_WEIGHT = 1.0
VECTOR_WEIGHT == 1

\* similarity__gt=0.3
ResearchCatFloor == 300

ResearchQueries == {{"notebook"}}

\* max(0.0, 1.0 - distance / 2.0) of a row: just under and at the 0.60 bar
ResearchVecScores == {590, 600}

\* review_rating None
NoRating == -1

\* one product has a code that is no number (danawa_product_id is a CharField),
\* one has no rating
ResearchCatalog ==
    (1 :> [numeric |-> TRUE, cat |-> 21, price |-> 300000, deleted |-> FALSE,
           has_vector |-> TRUE, status |-> "on_sale", review_count |-> 10, review_rating |-> 4]) @@
    (2 :> [numeric |-> TRUE, cat |-> 22, price |-> 300000, deleted |-> FALSE,
           has_vector |-> TRUE, status |-> "on_sale", review_count |-> 10, review_rating |-> 5]) @@
    (3 :> [numeric |-> TRUE, cat |-> 22, price |-> 1000000, deleted |-> FALSE,
           has_vector |-> TRUE, status |-> "on_sale", review_count |-> 0,
           review_rating |-> NoRating]) @@
    (4 :> [numeric |-> TRUE, cat |-> 21, price |-> 1000000, deleted |-> FALSE,
           has_vector |-> TRUE, status |-> "on_sale", review_count |-> 25, review_rating |-> 3]) @@
    (5 :> [numeric |-> TRUE, cat |-> 2, price |-> 1000000, deleted |-> FALSE,
           has_vector |-> TRUE, status |-> "on_sale", review_count |-> 0, review_rating |-> 0]) @@
    (6 :> [numeric |-> FALSE, cat |-> 21, price |-> 300000, deleted |-> FALSE,
           has_vector |-> TRUE, status |-> "on_sale", review_count |-> 0, review_rating |-> 0])

\* the JSON objects the survey analysis can answer with: category guess
\* ("None": absent or null), min_price and max_price (NoPrice: absent or null)
SurveyAnswers ==
    [category : {"None", "CPU"},
     search_query : {"text", "null"},
     min_price : {NoPrice, 500000, 2000000},
     max_price : {NoPrice, 0, 500000}]

\* _analyze_survey
analyze_survey(q, outcome, answer) ==
    IF outcome = "parsed"
    THEN [category |-> answer.category, sq_tag |-> answer.search_query,
          sq |-> IF answer.search_query = "null" THEN {} ELSE q, kw_tag |-> "list",
          min_price |-> answer.min_price,
          max_price |-> IF answer.max_price # NoPrice /\ answer.max_price > 0
                        THEN answer.max_price ELSE NoPrice]
    ELSE [category |-> "None", sq_tag |-> "text", sq |-> q, kw_tag |-> "list",
          min_price |-> NoPrice, max_price |-> NoPrice]

\* the price range validation of get_recommendations
InvalidRange(min_price, max_price) ==
    min_price # NoPrice /\ max_price # NoPrice /\ min_price > max_price

PriceArgs(min_price, max_price) ==
    IF InvalidRange(min_price, max_price)
    THEN [min |-> NoPrice, max |-> NoPrice]
    ELSE [min |-> min_price, max |-> max_price]

\* get_recommendations from the survey analysis to the call of _vector_search
research_analyze_intent ==
    /\ flow = "two"
    /\ pc = "start"
    /\ \E outcome \in IntentOutcomes, answer \in SurveyAnswers,
          sims \in [DOMAIN cats -> SimLevels] :
         LET got == analyze_survey(user_query, outcome, answer)
         IN  /\ intent' = got
             /\ intent_llm' = outcome
             /\ \E cid \in (IF got.category \in {"None", ""} THEN {0}
                            ELSE BestMatches(cats, sims, ResearchCatFloor)) :
                  /\ category_id' = cid
                  /\ price_args' = PriceArgs(got.min_price, got.max_price)
                  /\ warnings' = warnings
                        \cup (IF outcome # "parsed" THEN {"survey_analysis_failed"} ELSE {})
                        \cup (IF got.category \notin {"None", ""} /\ cid = 0
                              THEN {"category_unmapped"} ELSE {})
                        \cup (IF InvalidRange(got.min_price, got.max_price)
                              THEN {"invalid_price_range"} ELSE {})
    /\ pc' = "search"
    /\ UNCHANGED <<flow, prods, user_query, llm_calls, target_category_ids, tasks,
                   vector_results, keyword_results, fused_results, llm, response>>

\* _vector_search(intent['search_query'], category_id, min_price, max_price)
research_vector_search ==
    /\ flow = "two"
    /\ pc = "search"
    /\ \E embedding \in (IF intent.sq_tag = "null"
                           THEN EmbeddingOutcomes \ {"ok"}   \* input=None is refused
                           ELSE EmbeddingOutcomes) :
         IF embedding # "ok"
         THEN \* except Exception: return []
              /\ tasks' = [tasks EXCEPT !.vec = "embedding_failed", !.emb = embedding]
              /\ vector_results' = <<>>
              /\ pc' = "select"
              /\ UNCHANGED <<target_category_ids, response>>
         ELSE IF category_id # 0 /\ DescDiverges(cats, category_id)
         THEN /\ response' = Raised("RecursionError")
              /\ pc' = "done"
              /\ tasks' = [tasks EXCEPT !.emb = embedding]
              /\ UNCHANGED <<target_category_ids, vector_results>>
         ELSE LET ids == IF category_id # 0
                         THEN get_descendant_category_ids(cats, category_id) ELSE <<>>
                  base == {p \in DOMAIN prods : ~prods[p].deleted /\ prods[p].has_vector}
                  inCat == category_filter(prods, base, SeqSet(ids))
                  inMin == IF price_args.min # NoPrice
                           THEN {p \in inCat : prods[p].price >= price_args.min} ELSE inCat
                  inMax == IF price_args.max # NoPrice
                           THEN {p \in inMin : prods[p].price <= price_args.max} ELSE inMin
                  rows == {p \in inMax : prods[p].status \notin UnsellableStatus}
              IN  /\ target_category_ids' = ids
                  /\ tasks' = [tasks EXCEPT !.vec = "done", !.emb = embedding]
                  /\ \E score \in ScoreOracles(rows, ResearchVecScores) :
                       vector_results' = Take(Ranked(rows, score), SEARCH_LIMIT)
                  /\ pc' = "select"
                  /\ UNCHANGED response
    /\ UNCHANGED <<flow, prods, user_query, intent_llm, llm_calls,
                   intent, category_id, price_args,
                   keyword_results, fused_results, llm, warnings>>

\* the sort key (combined_score, review_count, review_rating or 0), compared
\* as tuples
RatingOrZero(rating) == IF rating = NoRating THEN 0 ELSE rating

\* a sort on the combined score alone
SortKeyScoreOnly(table, a, b) == a.score >= b.score

SortKeyGE(table, a, b) ==
    \/ a.score > b.score
    \/ /\ a.score = b.score
       /\ \/ table[a.pid].review_count > table[b.pid].review_count
          \/ /\ table[a.pid].review_count = table[b.pid].review_count
             /\ RatingOrZero(table[a.pid].review_rating)
                    >= RatingOrZero(table[b.pid].review_rating)

\* list.sort(key=..., reverse=True): stable
RECURSIVE InsertByKey(_, _, _)
InsertByKey(table, sorted, item) ==
    IF sorted = <<>> THEN <<item>>
    ELSE IF SortKeyGE(table, Head(sorted), item)
         THEN <<Head(sorted)>> \o InsertByKey(table, Tail(sorted), item)
         ELSE <<item>> \o sorted

RECURSIVE SortByKey(_, _, _)
SortByKey(table, sorted, rest) ==
    IF rest = <<>> THEN sorted
    ELSE SortByKey(table, InsertByKey(table, sorted, Head(rest)), Tail(rest))

\* ShoppingResearchService._fuse_results: the vector-only fuser
research_fuse_results(table, vec) ==
    LET results_map == DictOf(<<>>, vec)
        scored == [j \in 1..Len(results_map) |->
                      [pid |-> results_map[j].pid,
                       score |-> VECTOR_WEIGHT * results_map[j].score]]
    IN  SortByKey(table, <<>>, scored)

HighSimilarity(fused) == SelectSeq(fused, LAMBDA r : r.score >= MIN_SIMILARITY)

\* top_products of get_recommendations
top_products(fused) ==
    LET high == HighSimilarity(fused)
    IN  Take(IF Len(high) < ResearchTopK THEN Take(fused, ResearchTopK) ELSE high,
             ResearchTopK)

\* get_recommendations from _fuse_results to the check for an empty selection
research_select ==
    /\ flow = "two"
    /\ pc = "select"
    /\ LET fused == research_fuse_results(prods, vector_results)
       IN  /\ fused_results' = fused
           /\ IF top_products(fused) = <<>>
              THEN /\ response' = Returned(<<>>, "absent")
                   /\ warnings' = warnings \cup {"no_results"}
                   /\ pc' = "done"
              ELSE /\ pc' = "analyze"
                   /\ UNCHANGED <<response, warnings>>
    /\ UNCHANGED <<flow, prods, user_query, intent_llm, llm_calls,
                   intent, category_id, target_category_ids,
                   price_args, tasks, vector_results, keyword_results, llm>>

\* the batch answers of the model: every product analysed, or all but the
\* first, whose entry is left out or has an empty reason
BatchAnswers(top) ==
    {[j \in 1..Len(top) |-> IF j = 1 THEN first ELSE "text"] : first \in ReasonEntries}

\* _generate_recommendation_reason: the LLM's text stripped, or the sentence
\* of the except branch
generate_recommendation_reason(outcome) ==
    CASE outcome = "text" -> "text"
      [] outcome = "blank" -> ""      \* "\n".strip()
      [] OTHER -> "template"

\* the recommendation_reason _analyze_product settles on
analyze_reason(pre_analysis, outcome) ==
    IF pre_analysis # "absent"
    THEN IF pre_analysis = "" THEN "template" ELSE pre_analysis
    ELSE generate_recommendation_reason(outcome)

\* how many of the products the assembly loop gets to: it ends at the first
\* one whose code int() refuses
Analysed(table, top) ==
    IF \E j \in 1..Len(top) : ~table[top[j].pid].numeric
    THEN CHOOSE j \in 1..Len(top) :
             /\ ~table[top[j].pid].numeric
             /\ \A i \in 1..(j - 1) : table[top[i].pid].numeric
    ELSE Len(top)

\* _batch_analyze_products and the assembly loop over top_products
research_analyze_products ==
    /\ flow = "two"
    /\ pc = "analyze"
    /\ LET top == top_products(fused_results)
       IN  \E batch \in {"throws", "bad_json", "parsed"} :
           \E answer \in BatchAnswers(top) :
           \E single \in [1..Len(top) -> {"text", "blank", "throws"}] :
             LET analysis_map == [j \in 1..Len(top) |->
                                     IF batch = "parsed" THEN answer[j] ELSE "absent"]
             IN  /\ batch # "parsed" => answer[1] = "text"
                 /\ \A j \in 1..Len(top) : analysis_map[j] # "absent" => single[j] = "text"
                 /\ llm' = batch
                 /\ llm_calls' = 1 + 2 * Cardinality({j \in 1..Analysed(prods, top) :
                                                        analysis_map[j] = "absent"})
                 /\ IF \E j \in 1..Len(top) : ~prods[top[j].pid].numeric
                    THEN \* int(product.danawa_product_id)
                         response' = Raised("ValueError")
                    ELSE response' = Returned([j \in 1..Len(top) |->
                             [pid |-> top[j].pid,
                              reason |-> analyze_reason(analysis_map[j], single[j])]],
                             "absent")
    /\ pc' = "done"
    /\ UNCHANGED <<flow, prods, user_query, intent_llm, intent, category_id, target_category_ids,
                   price_args, tasks, vector_results, keyword_results, fused_results,
                   warnings>>

ResearchInit ==
    /\ flow = "two"
    /\ prods = ResearchCatalog
    /\ user_query \in ResearchQueries
    /\ pc = "start"
    /\ intent = NoIntent
    /\ category_id = 0
    /\ target_category_ids = <<>>
    /\ price_args = [min |-> NoPrice, max |-> NoPrice]
    /\ tasks = [vec |-> "idle", key |-> "idle", emb |-> "none"]
    /\ vector_results = <<>>
    /\ keyword_results = <<>>
    /\ fused_results = <<>>
    /\ llm = "none"
    /\ warnings = {}
    /\ intent_llm = "none"
    /\ llm_calls = 0
    /\ response = NoResponse

(***************************************************************************)
(* ShoppingResearchService: the session cache and generate_questions       *)
(***************************************************************************)
\* CACHE_TTL = 1800, seconds
CACHE_TTL == 1800

\* the time moves in steps of this many seconds, up to MaxClock
TickStep == 900

MaxClock == 3600

\* calls of generate_questions
MaxSessions == 2

\* the most questions a generated answer holds
MaxQuestions == 5

\* values of f"sr-{uuid.uuid4().hex[:8]}": 32 random bits, any value each time
SearchIds == {"sr-0000000a", "sr-0000000b"}

SessionQueries == {{"notebook"}, {"monitor"}}

\* _get_default_questions: four questions
DefaultQuestions ==
    <<[question_id |-> 1, question |-> "purpose"],
      [question_id |-> 2, question |-> "budget"],
      [question_id |-> 3, question |-> "display"],
      [question_id |-> 4, question |-> "portability"]>>

\* result.get('questions', []) of a parsed answer with n questions, each given
\* its position as question_id when it has none
GeneratedQuestions(n) == [j \in 1..n |-> [question_id |-> j, question |-> "generated"]]

\* the survey_contents a client sends: question text is optional ('' default)
Surveys ==
    {<<[question_id |-> 1, question |-> "", answer |-> "gaming"]>>,
     <<[question_id |-> 1, question |-> "typed", answer |-> "gaming"],
       [question_id |-> 2, question |-> "", answer |-> "cheap"]>>}

\* cache.get: the stored value while the entry has not timed out, else None
NoSession == [absent |-> TRUE]

cache_get(store, now, key) ==
    IF key \in DOMAIN store /\ now < store[key].expires THEN store[key].value
    ELSE NoSession

\* cache.set(key, value, timeout): writes whatever is there
cache_set(store, now, key, value, timeout) ==
    [k \in DOMAIN store \cup {key} |->
        IF k = key THEN [value |-> value, expires |-> now + timeout] ELSE store[k]]

\* _generate_search_id, for the id the uuid came out as
generate_search_id(store, now, search_id, q) ==
    cache_set(store, now, search_id, [user_query |-> q], CACHE_TTL)

\* the questions generate_questions returns
questions_of(outcome, n) ==
    IF outcome = "parsed" THEN GeneratedQuestions(n) ELSE DefaultQuestions

generate_questions(q, search_id, outcome, n) ==
    /\ Len(sessions) < MaxSessions
    /\ cache' = generate_search_id(cache, clock, search_id, q)
    /\ sessions' = Append(sessions, [search_id |-> search_id, user_query |-> q,
                                     questions |-> questions_of(outcome, n), at |-> clock])
    /\ UNCHANGED <<clock, served>>

\* questions_map.get(question_id, placeholder) over the cached question set
question_text(questions, id) ==
    IF \E j \in 1..Len(questions) : questions[j].question_id = id
    THEN questions[CHOOSE j \in 1..Len(questions) :
                       /\ questions[j].question_id = id
                       /\ \A i \in (j + 1)..Len(questions) : questions[i].question_id # id
                  ].question
    ELSE "placeholder"

\* get_recommendations, lines 189-198: the lookup and the filling of missing
\* question texts from cached_data['questions']
fill_survey(cached_data, survey) ==
    IF "absent" \notin DOMAIN cached_data /\ "questions" \in DOMAIN cached_data
    THEN [j \in 1..Len(survey) |->
             IF survey[j].question = ""
             THEN [survey[j] EXCEPT !.question =
                      question_text(cached_data.questions, survey[j].question_id)]
             ELSE survey[j]]
    ELSE survey

research_session_stage(search_id, survey) ==
    LET cached_data == cache_get(cache, clock, search_id)
    IN  /\ served' = [search_id |-> search_id, cached_data |-> cached_data,
                      sent |-> survey, survey |-> fill_survey(cached_data, survey),
                      at |-> clock]
        /\ UNCHANGED <<cache, clock, sessions>>

Tick ==
    /\ clock + TickStep <= MaxClock
    /\ clock' = clock + TickStep
    /\ UNCHANGED <<cache, sessions, served>>

NoServed == [search_id |-> "", cached_data |-> NoSession, sent |-> <<>>, survey |-> <<>>,
             at |-> 0]

SessIdle ==
    /\ cache = <<>>
    /\ clock = 0
    /\ sessions = <<>>
    /\ served = NoServed

(***************************************************************************)
(* ShoppingResearchService._calculate_performance_score                    *)
(***************************************************************************)
NoScore == -1

\* combined_score, 1000 for 1.0
PerfScores == {0, 10, 300, 600, 990, 1000}

\* review_rating in tenths of a star, or None
PerfRatings == {NoRating, 0, 5, 25, 45, 50}

PerfCounts == {0, 1, 99, 100, 101, 1000, 10000}

\* the sum with neither of the two caps
calculate_performance_score_uncapped(combined_score, review_rating, review_count) ==
    (combined_score * 7) \div 10
        + (IF review_rating = NoRating THEN 0 ELSE review_rating) * 4
        + review_count

\* min(1.0, base_score * 0.7 + (review_rating or 0) / 25 + min(review_count / 1000, 0.1)),
\* in thousandths: a tenth of a star is 4, a review is 1
calculate_performance_score(combined_score, review_rating, review_count) ==
    LET base_score == combined_score
        rating_score == (IF review_rating = NoRating THEN 0 ELSE review_rating) * 4
        review_score == IF review_count <= 100 THEN review_count ELSE 100
        performance == (base_score * 7) \div 10 + rating_score + review_score
    IN  IF performance <= 1000 THEN performance ELSE 1000

performance_call ==
    /\ perf_out = NoScore
    /\ perf_out' = calculate_performance_score(perf_in.combined_score, perf_in.review_rating,
                                               perf_in.review_count)
    /\ UNCHANGED perf_in

PerfInit ==
    /\ perf_in \in [combined_score : PerfScores, review_rating : PerfRatings,
                    review_count : PerfCounts]
    /\ perf_out = NoScore

PerfIdle ==
    /\ perf_in = [combined_score |-> 0, review_rating |-> NoRating, review_count |-> 0]
    /\ perf_out = NoScore

InitCat == CatInit /\ FuseIdle /\ ReqIdle /\ SessIdle /\ PerfIdle

NextCat ==
    \/ \E name \in CatNames, parent_id \in 0..MaxCats :
          create_category(name, parent_id) /\ UNCHANGED <<fuseVars, reqVars, sessVars, perfVars>>
    \/ \E cid \in 1..MaxCats, name \in CatNames \cup {NoName},
          parent_id \in {NoArg} \cup (0..MaxCats) :
            update_category(cid, name, parent_id) /\ UNCHANGED <<fuseVars, reqVars, sessVars, perfVars>>
    \/ \E cid \in 1..MaxCats :
          delete_category(cid) /\ UNCHANGED <<fuseVars, reqVars, sessVars, perfVars>>
    \/ \E cid \in 1..MaxCats :
          descendant_query(cid) /\ UNCHANGED <<fuseVars, reqVars, sessVars, perfVars>>

SpecCat == InitCat /\ [][NextCat]_vars

InitFuse == FuseInit /\ CatInit /\ ReqIdle /\ SessIdle /\ PerfIdle

NextFuse == FuseCall /\ CatIdle /\ UNCHANGED <<reqVars, sessVars, perfVars>>

SpecFuse == InitFuse /\ [][NextFuse]_vars

\* a request of either flow against a category table and a catalogue
\* requests against a catalogue longer than the limit of the vector search
LongInit ==
    /\ \/ /\ flow = "single"
          /\ prods = LongCatalog(VectorLimit + 7)
          /\ user_query \in {{"chair"}, {"notebook", "CPU"}}
       \/ /\ flow = "two"
          /\ prods = LongCatalog(SEARCH_LIMIT + 7)
          /\ user_query \in ResearchQueries
    /\ pc = "start"
    /\ intent = NoIntent
    /\ category_id = 0
    /\ target_category_ids = <<>>
    /\ price_args = [min |-> NoPrice, max |-> NoPrice]
    /\ tasks = [vec |-> "idle", key |-> "idle", emb |-> "none"]
    /\ vector_results = <<>>
    /\ keyword_results = <<>>
    /\ fused_results = <<>>
    /\ llm = "none"
    /\ warnings = {}
    /\ intent_llm = "none"
    /\ llm_calls = 0
    /\ response = NoResponse

\* the stages of a request that wait for an embedding or a model call
AtExternalCall ==
    \/ pc \in {"start", "rerank", "analyze"}
    \/ pc = "search" /\ flow = "two"
    \/ pc = "search" /\ flow = "single" /\ tasks.vec = "pending"

\* embeddings.create and generate_content are called with no timeout argument:
\* a call the service never answers is waited for, and nothing ends the wait
call_never_returns ==
    /\ AtExternalCall
    /\ pc' = "waiting"
    /\ UNCHANGED <<flow, prods, user_query, intent, category_id, target_category_ids,
                   price_args, tasks, vector_results, keyword_results, fused_results, llm,
                   warnings, intent_llm, llm_calls, response>>

InitSearch ==
    /\ cats \in FlowCatTables
    /\ reply = Reply("none", 0, <<>>)
    /\ catOps = 0
    /\ FuseIdle
    /\ SessIdle
    /\ PerfIdle
    /\ (SingleInit \/ ResearchInit)

NextSearch ==
    \/ single_resolve_category /\ UNCHANGED <<catVars, fuseVars, sessVars, perfVars>>
    \/ single_vector_search /\ UNCHANGED <<catVars, fuseVars, sessVars, perfVars>>
    \/ single_keyword_search /\ UNCHANGED <<catVars, fuseVars, sessVars, perfVars>>
    \/ single_fuse /\ UNCHANGED <<catVars, fuseVars, sessVars, perfVars>>
    \/ single_rerank /\ UNCHANGED <<catVars, fuseVars, sessVars, perfVars>>
    \/ research_analyze_intent /\ UNCHANGED <<catVars, fuseVars, sessVars, perfVars>>
    \/ research_vector_search /\ UNCHANGED <<catVars, fuseVars, sessVars, perfVars>>
    \/ research_select /\ UNCHANGED <<catVars, fuseVars, sessVars, perfVars>>
    \/ research_analyze_products /\ UNCHANGED <<catVars, fuseVars, sessVars, perfVars>>

SpecSearch == InitSearch /\ [][NextSearch]_vars

\* both flows up to the end of their searches, on the long catalogues
InitVector ==
    /\ cats \in FlowCatTables
    /\ reply = Reply("none", 0, <<>>)
    /\ catOps = 0
    /\ FuseIdle
    /\ SessIdle
    /\ PerfIdle
    /\ LongInit

NextVector ==
    \/ single_resolve_category /\ UNCHANGED <<catVars, fuseVars, sessVars, perfVars>>
    \/ single_vector_search /\ UNCHANGED <<catVars, fuseVars, sessVars, perfVars>>
    \/ single_keyword_search /\ UNCHANGED <<catVars, fuseVars, sessVars, perfVars>>
    \/ research_analyze_intent /\ UNCHANGED <<catVars, fuseVars, sessVars, perfVars>>
    \/ research_vector_search /\ UNCHANGED <<catVars, fuseVars, sessVars, perfVars>>

SpecVector == InitVector /\ [][NextVector]_vars

\* the request flows with calls that may stay unanswered; every step that can
\* be taken is taken in the end
NextSearchLive ==
    \/ NextSearch
    \/ call_never_returns /\ UNCHANGED <<catVars, fuseVars, sessVars, perfVars>>

SpecSearchLive == InitSearch /\ [][NextSearchLive]_vars /\ WF_vars(NextSearchLive)

InitSession == CatInit /\ FuseIdle /\ ReqIdle /\ SessIdle /\ PerfIdle

NextSession ==
    \/ \E q \in SessionQueries, search_id \in SearchIds,
          outcome \in {"throws", "bad_json", "parsed"}, n \in 0..MaxQuestions :
          /\ generate_questions(q, search_id, outcome, n)
          /\ UNCHANGED <<catVars, fuseVars, reqVars, perfVars>>
    \/ \E search_id \in SearchIds, survey \in Surveys :
          /\ research_session_stage(search_id, survey)
          /\ UNCHANGED <<catVars, fuseVars, reqVars, perfVars>>
    \/ Tick /\ UNCHANGED <<catVars, fuseVars, reqVars, perfVars>>

SpecSession == InitSession /\ [][NextSession]_vars

InitPerf == CatInit /\ FuseIdle /\ ReqIdle /\ SessIdle /\ PerfInit

NextPerf == performance_call /\ UNCHANGED <<catVars, fuseVars, reqVars, sessVars>>

SpecPerf == InitPerf /\ [][NextPerf]_vars

(***************************************************************************)
(* Properties of the category store                                        *)
(***************************************************************************)
Range(seq) == {seq[i] : i \in 1..Len(seq)}

\* no category reaches itself by following parent links
Acyclic(store) == \A c \in DOMAIN store : LevelWalk(store, c, 0) # -1

\* least set holding the members of S and every category whose parent is in
\* it; with activeOnly, soft-deleted categories are not entered
RECURSIVE Grow(_, _, _)
Grow(store, S, activeOnly) ==
    LET T == S \cup {c \in DOMAIN store :
                        /\ store[c].parent \in S
                        /\ (activeOnly => ~store[c].deleted)}
    IN  IF T = S THEN S ELSE Grow(store, T, activeOnly)

Closure(store, id, activeOnly) == Grow(store, {id}, activeOnly)

\* C4 as stated: on a category table without cycles the descendant
\* computation ends and returns exactly id and every category from which id
\* is reachable by parent links
C4_AllDescendants ==
    (Acyclic(cats) /\ reply.kind \in {"descendants", "RecursionError"}) =>
        /\ reply.kind = "descendants"
        /\ Range(reply.ids) = Closure(cats, reply.of, FALSE)

\* C4 amended: on a category table without cycles the descendant computation
\* ends and returns, each once, exactly id and the categories that reach id
\* by parent links through categories that are not soft-deleted
C4_ActiveDescendants ==
    (Acyclic(cats) /\ reply.kind \in {"descendants", "RecursionError"}) =>
        /\ reply.kind = "descendants"
        /\ Range(reply.ids) = Closure(cats, reply.of, TRUE)
        /\ Len(reply.ids) = Cardinality(Range(reply.ids))

\* a returned descendant list of two or more ids below which a soft-deleted
\* category hangs
C4_Witness ==
    /\ Acyclic(cats)
    /\ reply.kind = "descendants"
    /\ Len(reply.ids) >= 2
    /\ \E c \in CatIds : cats[c].deleted /\ cats[c].parent \in Range(reply.ids)

\* C5: after any sequence of create_category, update_category and
\* delete_category calls the parent relation has no cycle, so the descendant
\* computation ends
C5_NoCycle ==
    /\ Acyclic(cats)
    /\ reply.kind # "RecursionError"

(***************************************************************************)
(* Properties of the weighted-sum fuser                                    *)
(***************************************************************************)
PidsOf(list) == {list[j].pid : j \in 1..Len(list)}

ScoreOf(list, pid) == list[CHOOSE j \in 1..Len(list) : list[j].pid = pid].score

C3_WeightedSum ==
    \A r \in 1..Len(fruns) :
        LET run == fruns[r]
        IN  /\ PidsOf(run.out) = PidsOf(run.vec) \cup PidsOf(run.key)
            /\ \A j \in 1..Len(run.out) :
                  LET pid == run.out[j].pid
                      inVec == pid \in PidsOf(run.vec)
                      inKey == pid \in PidsOf(run.key)
                  IN  run.out[j].score =
                        IF inVec /\ inKey
                        THEN (7 * ScoreOf(run.vec, pid) + 3 * ScoreOf(run.key, pid)) \div 10
                        ELSE IF inVec THEN ScoreOf(run.vec, pid)
                        ELSE ScoreOf(run.key, pid)
            /\ \A j \in 1..(Len(run.out) - 1) : run.out[j].score >= run.out[j + 1].score

\* a call whose lists share a product and each hold one the other lacks
C3_Witness ==
    \E r \in 1..Len(fruns) :
        /\ PidsOf(fruns[r].vec) \cap PidsOf(fruns[r].key) # {}
        /\ PidsOf(fruns[r].vec) \ PidsOf(fruns[r].key) # {}
        /\ PidsOf(fruns[r].key) \ PidsOf(fruns[r].vec) # {}
        /\ Len(fruns[r].out) = 3

(***************************************************************************)
(* Properties of a recommendation request                                  *)
(***************************************************************************)
Min(a, b) == IF a <= b THEN a ELSE b

Finished == pc = "done"

ReturnedPids == {response.products[j].pid : j \in 1..Len(response.products)}

\* words that name a piece of hardware
HardwareWords == {"CPU", "cpu", "processor", "graphics_card", "GPU", "monitor",
                  "notebook", "SSD"}

\* C1: in the two-step flow a request whose fused candidate list has n >= 1
\* entries returns exactly min(5, n) products, whatever their scores.
C1_ReturnsMinFiveOfN ==
    (flow = "two" /\ Finished /\ Len(fused_results) >= 1)
        => /\ response.status = "ok"
           /\ Len(response.products) = Min(5, Len(fused_results))

\* C6: a single-step request whose query names a piece of hardware and for
\* which no category was resolved returns no product.
C6_UnresolvedHardwareQueryReturnsNothing ==
    (flow = "single" /\ Finished /\ response.status = "ok"
        /\ user_query \cap HardwareWords # {} /\ category_id = 0)
        => response.products = <<>>

\* C7: when a category is resolved, every returned product, from either
\* retrieval path and in either flow, is in a category of the resolved
\* category's descendant set (itself included).
C7_ReturnedWithinDescendants ==
    (Finished /\ response.status = "ok" /\ category_id # 0)
        => \A p \in ReturnedPids : prods[p].cat \in Closure(cats, category_id, TRUE)

\* a request with a resolved category has returned products of the category
\* and of a child category, found by both paths
C7_Witness ==
    /\ Finished
    /\ response.status = "ok"
    /\ category_id = 21
    /\ \E p, q \in ReturnedPids : prods[p].cat = 22 /\ prods[q].cat = 21
    /\ vector_results # <<>>
    /\ keyword_results # <<>>

\* C8: in the two-step flow an intent with min_price > max_price has the
\* retrieval called with neither bound, a warning logged, and the request
\* does not fail.
C8_InvalidRangeDropped ==
    (flow = "two" /\ Finished /\ InvalidRange(intent.min_price, intent.max_price))
        => /\ price_args = [min |-> NoPrice, max |-> NoPrice]
           /\ "invalid_price_range" \in warnings
           /\ response.status = "ok"

\* C9: when the re-rank or batch-analysis LLM call throws, the request still
\* completes normally and every returned product has a non-empty reason.
C9_ReasonsAfterFailedCall ==
    (Finished /\ llm = "throws")
        => /\ response.status = "ok"
           /\ \A j \in 1..Len(response.products) : response.products[j].reason # ""

\* C10: when embedding generation fails, the vector path yields an empty
\* list and the request goes on to a normal response.
C10_EmbeddingFailureDegrades ==
    (Finished /\ tasks.emb = "provider_error")
        => /\ vector_results = <<>>
           /\ response.status = "ok"

\* C11: an embedding failure from missing or invalid credentials ends the
\* request with an error the caller sees, not with a normal response; every
\* other embedding failure is recovered and the request responds normally.
C11_CredentialFailureSurfaces ==
    Finished =>
        /\ tasks.emb = "missing_key" => response.status = "raised"
        /\ tasks.emb = "provider_error" => response.status = "ok"

IssuedAs(search_id) == {i \in 1..Len(sessions) : sessions[i].search_id = search_id}

\* the session is the only one issued under its search_id
IssuedOnce(i) == IssuedAs(sessions[i].search_id) = {i}

\* C13: a session that generate_questions returned as (search_id, questions) is
\* found under search_id with both the original query and those questions
\* until CACHE_TTL seconds have passed, and is absent afterwards.
C13_SessionHoldsQueryAndQuestions ==
    \A i \in 1..Len(sessions) :
        IssuedOnce(i) =>
            LET s == sessions[i]
                v == cache_get(cache, clock, s.search_id)
            IN  IF clock < s.at + CACHE_TTL
                THEN /\ v # NoSession
                     /\ v.user_query = s.user_query
                     /\ "questions" \in DOMAIN v
                     /\ v.questions = s.questions
                ELSE v = NoSession

\* C14: generate_questions returns exactly four questions, whatever the
\* question-generation call did.
C14_AlwaysFourQuestions ==
    \A i \in 1..Len(sessions) : Len(sessions[i].questions) = 4

C16_LiveSessionNeverRewritten ==
    [][\A k \in DOMAIN cache :
          clock < cache[k].expires => (k \in DOMAIN cache' /\ cache'[k] = cache[k])]_vars


(***************************************************************************)
(* Properties of the performance score                                     *)
(***************************************************************************)
\* C18: for a combined score in [0, 1], a rating in [0, 5] or absent and a
\* review count of zero or more (10,000 included), the performance score lies
\* in [0, 1].
C18_PerformanceWithinUnitInterval ==
    perf_out # NoScore => (0 <= perf_out /\ perf_out <= 1000)

C18_Witness ==
    /\ perf_in = [combined_score |-> 1000, review_rating |-> 50, review_count |-> 10000]
    /\ perf_out = 1000

\* C17: in both flows a request that ends with no product to return carries
\* the explicit "no matching products" message together with the empty list.
C17_EmptyResultCarriesMessage ==
    (Finished /\ response.status = "ok" /\ response.products = <<>>)
        => response.message = "no_matching_products"

\* C20: the explanation stage of the two-step flow issues one model call at
\* most, the batch call; a product whose batch entry is missing (the call
\* failed, its answer did not parse, or it left the product out) gets the
\* templated reason and costs no further call.
C20_OneExplanationCall ==
    (Finished /\ flow = "two" /\ response.status = "ok" /\ response.products # <<>>) =>
        /\ llm_calls <= 1
        /\ llm # "parsed" =>
               \A j \in 1..Len(response.products) : response.products[j].reason = "template"

\* the product ids of both search lists of the single-step flow
SearchUnion == PidsOf(vector_results) \cup PidsOf(keyword_results)

\* no product id occurs twice in the list
EachOnce(list) == \A i, j \in 1..Len(list) : list[i].pid = list[j].pid => i = j

\* C19: in the single-step flow the fused list holds each product id of the
\* vector list or the keyword list exactly once, so that its length is the
\* size of their union and at most the sum of their lengths; the response
\* holds min(5, size of the union) products, each with a reason.
C19_FusedIsUnionAndTopFiveReturned ==
    (flow = "single" /\ tasks.vec = "done" /\ tasks.key = "done") =>
        /\ pc = "search" =>
               LET fused == fuse_results(vector_results, keyword_results)
               IN  /\ EachOnce(fused)
                   /\ PidsOf(fused) = SearchUnion
                   /\ Len(fused) = Cardinality(SearchUnion)
                   /\ Len(fused) <= Len(vector_results) + Len(keyword_results)
        /\ pc = "rerank" =>
               /\ EachOnce(fused_results)
               /\ PidsOf(fused_results) \subseteq SearchUnion
               /\ Len(fused_results) = Min(RerankPool, Cardinality(SearchUnion))
        /\ pc = "done" =>
               /\ response.status = "ok"
               /\ EachOnce(response.products)
               /\ ReturnedPids \subseteq SearchUnion
               /\ Len(response.products) = Min(TOP_K, Cardinality(SearchUnion))
               /\ \A j \in 1..Len(response.products) :
                      response.products[j].reason \in {"text", "template"}

C19_Witness ==
    /\ flow = "single"
    /\ Finished
    /\ Cardinality(SearchUnion) = 6
    /\ PidsOf(vector_results) \cap PidsOf(keyword_results) # {}
    /\ Len(response.products) = 5
    /\ \E j \in 1..5 : response.products[j].reason = "text"

\* C21: every recommendation request ends, also when an embedding call or a
\* model call is never answered: a request that waits for an answer has a
\* further step to take, the cut-off of the call, and is never left waiting.
C21_UnansweredCallIsCutOff == pc = "waiting" => ENABLED NextSearchLive

\* C22: in the single-step flow the vector task and the keyword task are
\* launched together, before either has ended; in every interleaving the
\* request leaves the search stage (to fuse, or to fail) only when both tasks
\* have ended; and a step of one task leaves the other task's state and result
\* as they were.
C22_ForkJoin ==
    [][flow = "single" =>
          /\ (tasks.vec = "idle" /\ tasks'.vec # "idle") =>
                 (tasks'.vec = "pending" /\ tasks'.key = "pending")
          /\ (tasks.key = "idle" /\ tasks'.key # "idle") =>
                 (tasks'.vec = "pending" /\ tasks'.key = "pending")
          /\ (pc = "search" /\ pc' # "search") =>
                 (tasks.vec # "pending" /\ tasks.key # "pending")
          /\ fused_results' # fused_results =>
                 (tasks.vec = "done" /\ tasks.key = "done")
          /\ (tasks.vec = "pending" /\ tasks'.vec # "pending") =>
                 (tasks'.key = tasks.key /\ keyword_results' = keyword_results)
          /\ (tasks.key = "pending" /\ tasks'.key # "pending") =>
                 (tasks'.vec = tasks.vec /\ vector_results' = vector_results)
      ]_vars

C22_Witness ==
    /\ flow = "single"
    /\ pc = "rerank"
    /\ tasks.vec = "done"
    /\ tasks.key = "done"
    /\ vector_results # <<>>
    /\ keyword_results # <<>>

\* the request has its vector list and has not fused it yet
VectorListReady ==
    /\ tasks.vec = "done"
    /\ \/ flow = "single" /\ pc = "search"
       \/ flow = "two" /\ pc = "select"

\* C23: in both flows the vector search returns at most N candidates (20 in
\* the single-step flow, 50 in the two-step flow) in order of distance, nearest
\* first (similarity never rising along the list); every candidate is not
\* deleted, has an embedding, is not discontinued, stopped or sold out, lies
\* in the category-id set when there is one, and has a price within the price
\* bounds that are present.
C23_VectorCandidates ==
    VectorListReady =>
        /\ Len(vector_results) <= (IF flow = "single" THEN VectorLimit ELSE SEARCH_LIMIT)
        /\ EachOnce(vector_results)
        /\ \A j \in 1..(Len(vector_results) - 1) :
              vector_results[j].score >= vector_results[j + 1].score
        /\ \A j \in 1..Len(vector_results) :
              LET p == prods[vector_results[j].pid]
              IN  /\ ~p.deleted
                  /\ p.has_vector
                  /\ p.status \notin UnsellableStatus
                  /\ target_category_ids # <<>> => p.cat \in SeqSet(target_category_ids)
                  /\ (flow = "two" /\ price_args.min # NoPrice) => p.price >= price_args.min
                  /\ (flow = "two" /\ price_args.max # NoPrice) => p.price <= price_args.max

C23_Witness ==
    /\ VectorListReady
    /\ flow = "two"
    /\ price_args.min = 500000
    /\ Len(vector_results) = SEARCH_LIMIT
    /\ vector_results[1].score > vector_results[SEARCH_LIMIT].score

\* C24: the category that a guess string resolves to (by exact name first,
\* else by the highest similarity above 0.3) is an active category or none: a
\* soft-deleted category is never the resolved category.
C24_ResolvedCategoryIsActive ==
    (pc # "start" /\ category_id # 0 /\ (flow = "two" \/ KeywordOverride(user_query) = 0))
        => (category_id \in DOMAIN cats /\ ~cats[category_id].deleted)

\* the request has fused its vector list
ResearchFused == flow = "two" /\ tasks.vec = "done" /\ pc \in {"analyze", "done"}

\* entry a of the fused list may stand before entry b
MayPrecede(a, b) ==
    LET pa == prods[a.pid]
        pb == prods[b.pid]
        ra == IF pa.review_rating = NoRating THEN 0 ELSE pa.review_rating
        rb == IF pb.review_rating = NoRating THEN 0 ELSE pb.review_rating
    IN  \/ a.score > b.score
        \/ a.score = b.score /\ pa.review_count > pb.review_count
        \/ a.score = b.score /\ pa.review_count = pb.review_count /\ ra >= rb

\* C25: in the two-step flow the fused list holds the candidates of the
\* vector list, each with its vector similarity as combined score, ordered by
\* (combined score, review count, rating or zero) descending: at equal
\* similarity more reviews come first, at equal review count the higher rating
\* (an absent rating counting as 0) comes first.
C25_FusedOrder ==
    ResearchFused =>
        /\ Len(fused_results) = Len(vector_results)
        /\ EachOnce(fused_results)
        /\ \A j \in 1..Len(fused_results) :
              /\ fused_results[j].pid \in PidsOf(vector_results)
              /\ fused_results[j].score = ScoreOf(vector_results, fused_results[j].pid)
        /\ \A j \in 1..(Len(fused_results) - 1) :
              MayPrecede(fused_results[j], fused_results[j + 1])

C25_Witness ==
    /\ ResearchFused
    /\ Len(fused_results) = 6
    /\ \A j \in 1..6 : fused_results[j].score = 600
    /\ PosOf(fused_results, 4) = 1
    /\ PosOf(fused_results, 2) < PosOf(fused_results, 1)
    /\ PosOf(fused_results, 3) < PosOf(fused_results, 5)

\* C26: in the single-step flow, when the intent call answers with text that
\* holds a well-formed JSON object, the intent used downstream is that object
\* (category guess, search string and keywords, absent fields defaulted).
C26_ParsedIntentIsUsed ==
    (flow = "single" /\ pc # "start" /\ intent_llm = "parsed") => intent \in SingleAnswers

\* the raw query names the word, in capitals or not
Names(w, W) == w \in user_query \/ W \in user_query

\* C27: in the single-step flow a hardware keyword in the raw query fixes the
\* category, whatever the model guessed and with no exact or fuzzy resolution:
\* CPU or processor first, then graphics card or GPU, then monitor, then
\* notebook, matched without regard to case.
C27_KeywordOverridePrecedence ==
    (flow = "single" /\ pc # "start") =>
        IF Names("cpu", "CPU") \/ Names("processor", "processor")
        THEN category_id = 21
        ELSE IF Names("graphics_card", "graphics_card") \/ Names("gpu", "GPU")
        THEN category_id = 24
        ELSE IF Names("monitor", "monitor")
        THEN category_id = 18
        ELSE IF Names("notebook", "notebook")
        THEN category_id = 2
        ELSE TRUE

C27_Witness ==
    /\ flow = "single"
    /\ pc = "search"
    /\ user_query = {"monitor", "notebook"}
    /\ intent_llm = "parsed"
    /\ category_id = 18

\* C28: in the two-step flow the assembly of the response succeeds for every
\* non-empty selection, whatever the form of the products' codes: once the
\* analysis stage has run, the request returns its products.
C28_AssemblyNeverRaises ==
    (flow = "two" /\ Finished /\ llm # "none") =>
        (response.status = "ok" /\ response.products # <<>>)

\* C29: in the two-step flow the returned products are the first min(5, n)
\* entries of the fused ordering, in that order, ranked 1..k by position,
\* whether the 0.60 threshold was applied or relaxed.
C29_ReturnsFusedPrefix ==
    (flow = "two" /\ Finished /\ tasks.vec # "idle" /\ tasks.emb = "ok"
        /\ response.error # "RecursionError") =>
        /\ response.status = "ok"
        /\ Len(response.products) = Min(ResearchTopK, Len(fused_results))
        /\ \A j \in 1..Len(response.products) :
              response.products[j].pid = fused_results[j].pid

\* C30: the re-rank stage of the single-step flow changes neither membership
\* nor order: whatever the answer (another order, products left out, unknown
\* codes), the returned products are the first min(5, n) fused candidates in
\* fused-score order, and a product carries a reason of the answer only if
\* that reason was written for its own product code.
C30_RerankKeepsOrder ==
    (flow = "single" /\ Finished /\ llm # "none") =>
        /\ response.status = "ok"
        /\ Len(response.products) = Min(TOP_K, Len(fused_results))
        /\ \A j \in 1..Len(response.products) :
              /\ response.products[j].pid = fused_results[j].pid
              /\ response.products[j].reason # "template" =>
                     response.products[j].reason_of = response.products[j].pid
              /\ response.products[j].reason = "template" =>
                     response.products[j].reason_of = 0
        /\ \A j \in 1..(Len(fused_results) - 1) :
              fused_results[j].score >= fused_results[j + 1].score

C30_Witness ==
    /\ flow = "single"
    /\ Finished
    /\ llm = "parsed"
    /\ Len(fused_results) = 6
    /\ Len(response.products) = 5
    /\ response.products[1].reason = "template"
    /\ response.products[2].reason = "text"
    /\ fused_results[1].score > fused_results[6].score

=============================================================================
